---- MODULE Spec2Model ----
(***************************************************************************)
(* Model of the answer-evaluation and grading engine of the Gradewise       *)
(* backend: the submission handler submitAssessmentForStudent (both copies  *)
(* kept in the repository), its answer normalizers, evaluateShortAnswer,    *)
(* the instructor override of autoGradingService, and the temporary attempt *)
(* of getAssessmentForInstructorPrint.                                      *)
(*                                                                          *)
(* JavaScript strings are sequences of one-character strings; a JavaScript  *)
(* value is a record [k, s]: k is "null", "str" or "num", s the characters. *)
(***************************************************************************)
EXTENDS Integers, Sequences, FiniteSets, TLC

VARIABLES
    deployed,         \* which copy of the submission handler serves the route
    questions,        \* generated_questions: attempt -> sequence of rows
    attempts,         \* assessment_attempts: attempt -> [status, score, student_id]
    student_answers,  \* student_answers: attempt -> question position -> row
    reqs,             \* in-flight submission requests
    overrides,        \* number of override requests served so far
    norm,             \* a value under repeated normalization
    grade,            \* one question being scored in isolation
    served,           \* the last request to POST /override and its response
    auto,             \* a run of gradeAssessmentAttempt and the tables it uses
    assessment,       \* assessments: the row of the one assessment [is_executed]
    gemini            \* geminiService: the active key and a call of generateContent

vars ==
    <<deployed, questions, attempts, student_answers, reqs, overrides, norm, grade,
      served, auto, assessment, gemini>>

(***************************************************************************)
(* Bounds of the model.                                                     *)
(***************************************************************************)
MaxLen == 3          \* longest string handed to a normalizer
MaxAnsLen == 2       \* longest answer / correct answer scored in isolation
MaxKeywords == 2     \* longest required_keywords list of a rubric
MaxQuestions == 2    \* most questions generated for one attempt
MaxRequests == 2     \* most submission requests in one behaviour
MaxOverrides == 1    \* most override requests in one behaviour
MaxOverrideRequests == 2  \* most override requests in one behaviour of SpecOverride

(***************************************************************************)
(* JavaScript values and strings.                                           *)
(***************************************************************************)
Null == [k |-> "null", s |-> <<>>]
Str(s) == [k |-> "str", s |-> s]
\* a JavaScript number; String(n) is its decimal text
Num(s) == [k |-> "num", s |-> s]

Quote == "\""
Backslash == "\\"
Apostrophe == "'"
Space == " "

Chars == {"a", "B", Space, Quote, Backslash, "!", Apostrophe}

RECURSIVE StringsUpTo(_, _)
StringsUpTo(alphabet, n) ==
    IF n = 0 THEN {<<>>}
    ELSE LET shorter == StringsUpTo(alphabet, n - 1)
         IN  shorter \cup {<<c>> \o t : c \in alphabet, t \in {u \in shorter : Len(u) = n - 1}}

\* String.prototype.toLowerCase, on the alphabet of the model
LowerChar(c) == IF c = "B" THEN "b" ELSE IF c = "A" THEN "a" ELSE c
toLowerCase(s) == [i \in 1..Len(s) |-> LowerChar(s[i])]

\* \s and \w of JavaScript regular expressions
IsSpace(c) == c = Space
IsWord(c) == c \in {"a", "b", "A", "B", "n", "u", "l", "t", "r", "e", "4", "2", "_"}

RECURSIVE trimStart(_)
trimStart(s) == IF Len(s) > 0 /\ IsSpace(s[1]) THEN trimStart(Tail(s)) ELSE s

RECURSIVE trimEnd(_)
trimEnd(s) ==
    IF Len(s) > 0 /\ IsSpace(s[Len(s)]) THEN trimEnd(SubSeq(s, 1, Len(s) - 1)) ELSE s

\* String.prototype.trim
trim(s) == trimEnd(trimStart(s))

\* .replace(/[^\w\s]/g, "")
StripPunctuation(s) == SelectSeq(s, LAMBDA c : IsWord(c) \/ IsSpace(c))

\* .replace(/\s+/g, " ")
RECURSIVE CollapseSpaces(_)
CollapseSpaces(s) ==
    IF Len(s) <= 1 THEN s
    ELSE IF IsSpace(s[1]) /\ IsSpace(s[2]) THEN CollapseSpaces(Tail(s))
    ELSE <<s[1]>> \o CollapseSpaces(Tail(s))

\* .replace(/\\"/g, '"'): every backslash followed by a quote becomes a quote,
\* scanning left to right without rescanning what was produced
RECURSIVE UnescapeQuotes(_)
UnescapeQuotes(s) ==
    IF Len(s) = 0 THEN s
    ELSE IF Len(s) >= 2 /\ s[1] = Backslash /\ s[2] = Quote
         THEN <<Quote>> \o UnescapeQuotes(SubSeq(s, 3, Len(s)))
    ELSE <<s[1]>> \o UnescapeQuotes(Tail(s))

\* .replace(/^["'\s]+|["'\s]+$/g, '')
IsQuoteOrSpace(c) == c \in {Quote, Apostrophe} \/ IsSpace(c)

RECURSIVE StripLeadingQuotes(_)
StripLeadingQuotes(s) ==
    IF Len(s) > 0 /\ IsQuoteOrSpace(s[1]) THEN StripLeadingQuotes(Tail(s)) ELSE s

RECURSIVE StripTrailingQuotes(_)
StripTrailingQuotes(s) ==
    IF Len(s) > 0 /\ IsQuoteOrSpace(s[Len(s)])
    THEN StripTrailingQuotes(SubSeq(s, 1, Len(s) - 1))
    ELSE s

StripQuotes(s) == StripTrailingQuotes(StripLeadingQuotes(s))

\* String(val) for the values of the model
String(v) == IF v.k = "null" THEN <<"n", "u", "l", "l">> ELSE v.s

\* String.prototype.includes
includes(s, t) ==
    \E i \in 0..(Len(s) - Len(t)) : SubSeq(s, i + 1, i + Len(t)) = t

\* JSON.stringify of a value
EscapeChar(c) == IF c = Quote \/ c = Backslash THEN <<Backslash, c>> ELSE <<c>>

RECURSIVE EscapeString(_)
EscapeString(s) == IF Len(s) = 0 THEN s ELSE EscapeChar(s[1]) \o EscapeString(Tail(s))

JSONstringify(v) ==
    IF v.k = "str" THEN <<Quote>> \o EscapeString(v.s) \o <<Quote>> ELSE String(v)

(***************************************************************************)
(* The answer normalizers.                                                  *)
(***************************************************************************)
\* normalizeText of the submission controller (short answers and keywords)
normalizeText(text) == trim(CollapseSpaces(StripPunctuation(toLowerCase(text))))

\* clean of submitAssessmentForStudent (multiple_choice / true_false)
clean(val) ==
    IF val.k = "null" THEN <<>> ELSE UnescapeQuotes(toLowerCase(trim(String(val))))

\* clean of getStudentAttemptQuestionsModel (the analytics view)
\* String(str || ""): null and the empty string both give ""
cleanAnalytics(str) ==
    LET text == IF str.k = "null" \/ str.s = <<>> THEN <<>> ELSE String(str)
    IN  toLowerCase(trim(StripQuotes(UnescapeQuotes(text))))

(***************************************************************************)
(* Scoring of one question, as the loop body of submitAssessmentForStudent  *)
(* computes it.  A generated_questions row is                               *)
(*   [question_type, correct_answer, positive_marks, negative_marks];       *)
(* correct_answer is the TEXT column: Null, a string, or (short_answer) a   *)
(* JSON document.  positive_marks / negative_marks are NUMERIC columns,     *)
(* never NULL (storeQuestionBlocks writes Number(x)); node-postgres hands   *)
(* them over as non-empty strings, so the || 1 and || 0 defaults of the     *)
(* handler never apply and parseFloat gives the stored number.              *)
(***************************************************************************)
QuestionTypes == {"multiple_choice", "true_false", "short_answer"}

\* a short-answer rubric: min_required_match may be missing from the object
NoMin == [has |-> FALSE, n |-> 0]
Min(n) == [has |-> TRUE, n |-> n]
Rule(keywords, min) == [required_keywords |-> keywords, min_required_match |-> min]

\* the TEXT of a short_answer correct_answer: JSON of a rubric object, JSON
\* of a falsy value (such as ""), or text that is not JSON
Json(rule) == [k |-> "json", s |-> <<>>, doc |-> "object", rule |-> rule]
JsonFalsy == [k |-> "json", s |-> <<>>, doc |-> "falsy", rule |-> Rule(<<>>, NoMin)]
NotJson == [k |-> "json", s |-> <<>>, doc |-> "invalid", rule |-> Rule(<<>>, NoMin)]

\* JavaScript truthiness of a value
Truthy(v) ==
    \/ v.k = "str" /\ v.s # <<>>
    \/ v.k = "num" /\ v.s # <<"0">>

\* the outcome of evaluating one answer: threw models an exception that
\* leaves the loop body for the handler's catch
Outcome(isCorrect) == [threw |-> FALSE, isCorrect |-> isCorrect]
Threw == [threw |-> TRUE, isCorrect |-> FALSE]

\* the number of required keywords found in the normalized answer
RECURSIVE CountMatched(_, _)
CountMatched(answer, required) ==
    IF Len(required) = 0 THEN 0
    ELSE (IF includes(answer, normalizeText(required[1].s)) THEN 1 ELSE 0)
         + CountMatched(answer, Tail(required))

\* a faulty variant: min_required_match ?? required.length, which takes a
\* threshold of 0 as given
MinMatchNullish(rule) ==
    IF rule.min_required_match.has THEN rule.min_required_match.n
    ELSE Len(rule.required_keywords)

\* rule.min_required_match || required.length
MinMatch(rule) ==
    IF rule.min_required_match.has /\ rule.min_required_match.n # 0
    THEN rule.min_required_match.n
    ELSE Len(rule.required_keywords)

\* evaluateShortAnswer(studentAnswer, rule); hasRule is FALSE for a falsy rule.
\* normalizeText throws a TypeError on a value that is not a string.
evaluateShortAnswer(studentAnswer, hasRule, rule) ==
    IF ~Truthy(studentAnswer) \/ ~hasRule THEN Outcome(FALSE)
    ELSE IF studentAnswer.k # "str" THEN Threw
    ELSE IF \E i \in 1..Len(rule.required_keywords) : rule.required_keywords[i].k # "str"
         THEN Threw
    ELSE Outcome(CountMatched(normalizeText(studentAnswer.s), rule.required_keywords)
                    >= MinMatch(rule))

Abs(n) == IF n < 0 THEN -n ELSE n

\* isCorrect of the loop body: JSON.parse + evaluateShortAnswer for a short
\* answer, clean(correct) === clean(student) for every other type
IsCorrect(q, studentAnswer) ==
    IF q.question_type = "short_answer"
    THEN IF q.correct_answer.k = "null" THEN evaluateShortAnswer(studentAnswer, FALSE, Rule(<<>>, NoMin))
         ELSE IF q.correct_answer.k # "json" \/ q.correct_answer.doc = "invalid" THEN Threw
         ELSE evaluateShortAnswer(studentAnswer, q.correct_answer.doc = "object",
                                  q.correct_answer.rule)
    ELSE Outcome(clean(q.correct_answer) = clean(studentAnswer))

\* the signed score of a question: +positive_marks when correct,
\* -|negative_marks| when wrong and answered, 0 when unanswered
ScoreOf(q, studentAnswer, isCorrect) ==
    IF isCorrect THEN q.positive_marks
    ELSE IF studentAnswer.k # "null" THEN -Abs(q.negative_marks)
    ELSE 0

\* one iteration of the loop of submitAssessmentForStudent, up to the write
GradeAnswer(q, studentAnswer) ==
    LET e == IsCorrect(q, studentAnswer)
    IN  [threw |-> e.threw, isCorrect |-> e.isCorrect,
         score |-> IF e.threw THEN 0 ELSE ScoreOf(q, studentAnswer, e.isCorrect)]

(***************************************************************************)
(* The other copy of the handler: strict equality (checkAnswer) and, for a  *)
(* short answer, the verdict of the external checking model.                *)
(***************************************************************************)
\* the replies of the checking model: "true", anything else, or a failed call
Verdicts == {"true", "false", "error"}

checkAnswer(questionType, studentAnswer, correctAnswer) ==
    IF studentAnswer.k = "null" THEN FALSE
    ELSE IF questionType \in {"multiple_choice", "true_false"}
         THEN studentAnswer = correctAnswer
    ELSE FALSE

LegacyScoreOf(q, studentAnswer, isCorrect) ==
    IF isCorrect THEN q.positive_marks
    ELSE IF studentAnswer.k # "null" THEN -(q.negative_marks)
    ELSE 0

GradeAnswerAI(q, studentAnswer, verdict) ==
    IF q.question_type = "short_answer" /\ verdict = "error"
    THEN [threw |-> TRUE, isCorrect |-> FALSE, score |-> 0]
    ELSE LET isCorrect == IF q.question_type = "short_answer" THEN verdict = "true"
                          ELSE checkAnswer(q.question_type, studentAnswer, q.correct_answer)
         IN  [threw |-> FALSE, isCorrect |-> isCorrect,
              score |-> LegacyScoreOf(q, studentAnswer, isCorrect)]

(***************************************************************************)
(* One question scored in isolation (specification SpecGrade).              *)
(***************************************************************************)
GradeChars == {"a", "B", Space, Quote, Backslash}
GradeStrings == StringsUpTo(GradeChars, MaxAnsLen)
MarkValues == {-1, 0, 2}

StoredAnswers == {Null} \cup {Str(s) : s \in GradeStrings}
RawAnswers == StoredAnswers \cup {Num(<<"4", "2">>)}

KeywordPool == {Str(<<"a">>), Str(<<"B">>), Str(<<"!">>), Num(<<"4", "2">>)}
MinChoices == {NoMin, Min(-1), Min(0), Min(1), Min(2)}
Rubrics ==
    {Json(Rule(kw, m)) : kw \in StringsUpTo(KeywordPool, MaxKeywords), m \in MinChoices}
        \cup {JsonFalsy, NotJson, Null}

GradeQuestions ==
    {[question_type |-> t, correct_answer |-> c, positive_marks |-> p, negative_marks |-> n] :
        t \in {"multiple_choice", "true_false"}, c \in StoredAnswers,
        p \in {0, 2}, n \in MarkValues}
    \cup
    {[question_type |-> "short_answer", correct_answer |-> c, positive_marks |-> p,
      negative_marks |-> n] : c \in Rubrics, p \in {0, 2}, n \in MarkValues}

NoResult == [threw |-> FALSE, isCorrect |-> FALSE, score |-> 0]

InitGrade ==
    /\ grade \in {[stage |-> "input", handler |-> "none", q |-> q, answer |-> a,
                   result |-> NoResult] : q \in GradeQuestions, a \in RawAnswers}
    /\ deployed = "none"
    /\ questions = <<>>
    /\ attempts = <<>>
    /\ student_answers = <<>>
    /\ reqs = <<>>
    /\ overrides = 0
    /\ norm = [stage |-> "idle"]
    /\ served = [stage |-> "idle"]
    /\ auto = [stage |-> "idle"]
    /\ assessment = [is_executed |-> TRUE]
    /\ gemini = [pc |-> "idle"]

Graded(handler, result) ==
    /\ grade.stage = "input"
    /\ grade' = [grade EXCEPT !.stage = "scored", !.handler = handler, !.result = result]
    /\ UNCHANGED <<deployed, questions, attempts, student_answers, reqs, overrides, norm, served, auto, assessment,
                   gemini>>

ScoreOne == Graded("submit", GradeAnswer(grade.q, grade.answer))

ScoreOneAI ==
    \E verdict \in Verdicts :
        /\ grade.q.question_type # "short_answer" => verdict = "false"
        /\ Graded("submitAI", GradeAnswerAI(grade.q, grade.answer, verdict))

NextGrade == ScoreOne \/ ScoreOneAI

SpecGrade == InitGrade /\ [][NextGrade]_vars

\* a question of the given kind was scored by a handler without a throw
Scored == grade.stage = "scored" /\ ~grade.result.threw
ChoiceScored == Scored /\ grade.q.question_type \in {"multiple_choice", "true_false"}
ShortScored ==
    /\ Scored
    /\ grade.handler = "submit"
    /\ grade.q.question_type = "short_answer"

AnsweredChoiceScore ==
    (ChoiceScored /\ grade.answer # Null /\ grade.q.positive_marks >= 0) =>
        /\ grade.result.score =
              (IF clean(grade.answer) = clean(grade.q.correct_answer)
               THEN grade.q.positive_marks
               ELSE -Abs(grade.q.negative_marks))
        /\ ~(clean(grade.answer) = clean(grade.q.correct_answer)) => grade.result.score <= 0

\* the required keywords of the rubric whose normalized text occurs in the
\* normalized answer, by position
FoundKeywords(answer, rule) ==
    {i \in 1..Len(rule.required_keywords) :
        includes(normalizeText(answer.s), normalizeText(rule.required_keywords[i].s))}

\* the score of a short answer is positive_marks or nothing gained
BinaryScore ==
    /\ grade.result.isCorrect => grade.result.score = grade.q.positive_marks
    /\ ~grade.result.isCorrect =>
          grade.result.score = (IF grade.answer = Null THEN 0
                                ELSE -Abs(grade.q.negative_marks))

\* C7 as stated: a short answer is correct iff the number of required
\* keywords found in the normalized answer is >= min_required_match, which
\* defaults to required_keywords.length when not given; the score is binary.
ShortAnswerThresholdAsStated ==
    (ShortScored /\ grade.q.correct_answer.k = "json" /\ grade.q.correct_answer.doc = "object"
        /\ grade.answer.k = "str") =>
        LET rule == grade.q.correct_answer.rule
            threshold == IF rule.min_required_match.has THEN rule.min_required_match.n
                         ELSE Len(rule.required_keywords)
        IN  /\ grade.result.isCorrect <=>
                  Cardinality(FoundKeywords(grade.answer, rule)) >= threshold
            /\ BinaryScore

\* C7: for a non-empty answer and a rubric object, a short answer is correct
\* iff the number of required keywords whose normalized text occurs in the
\* normalized answer is >= the threshold, where the threshold is
\* min_required_match when it is given and not 0, and required_keywords.length
\* otherwise; an empty or missing answer, and an answer to a question without
\* a rubric, is never correct; the score is positive_marks when correct and
\* is never a partial credit.
ShortAnswerThreshold ==
    ShortScored =>
        /\ BinaryScore
        /\ (grade.answer = Null \/ grade.answer.s = <<>> \/ grade.q.correct_answer.k = "null")
              => ~grade.result.isCorrect
        /\ (grade.q.correct_answer.k = "json" /\ grade.q.correct_answer.doc = "falsy")
              => ~grade.result.isCorrect
        /\ (grade.q.correct_answer.k = "json" /\ grade.q.correct_answer.doc = "object"
              /\ grade.answer.k = "str" /\ grade.answer.s # <<>>) =>
              LET rule == grade.q.correct_answer.rule
                  given == rule.min_required_match.has /\ rule.min_required_match.n # 0
                  threshold == IF given THEN rule.min_required_match.n
                               ELSE Len(rule.required_keywords)
              IN  grade.result.isCorrect <=>
                      Cardinality(FoundKeywords(grade.answer, rule)) >= threshold

\* a short answer was judged correct against a rubric of two different
\* keywords without min_required_match, both found in the answer
ShortAnswerJudged ==
    /\ ShortScored
    /\ grade.q.correct_answer.k = "json" /\ grade.q.correct_answer.doc = "object"
    /\ grade.answer.k = "str"
    /\ grade.q.positive_marks > 0
    /\ LET rule == grade.q.correct_answer.rule
       IN  /\ Len(rule.required_keywords) = 2
           /\ ~rule.min_required_match.has
           /\ normalizeText(rule.required_keywords[1].s) # <<>>
           /\ normalizeText(rule.required_keywords[2].s) # <<>>
           /\ rule.required_keywords[1] # rule.required_keywords[2]
           /\ Cardinality(FoundKeywords(grade.answer, rule)) = 2
           /\ grade.result.isCorrect
           /\ grade.result.score = grade.q.positive_marks

(***************************************************************************)
(* Normalizers applied repeatedly (specification SpecNorm).                 *)
(***************************************************************************)
NormInputs == {Null} \cup {Str(s) : s \in StringsUpTo(Chars, MaxLen)}

InitNorm ==
    /\ norm \in {[stage |-> "input", fn |-> "none", val |-> v, prev |-> v] : v \in NormInputs}
    /\ deployed = "none"
    /\ questions = <<>>
    /\ attempts = <<>>
    /\ student_answers = <<>>
    /\ reqs = <<>>
    /\ overrides = 0
    /\ grade = [stage |-> "idle"]
    /\ served = [stage |-> "idle"]
    /\ auto = [stage |-> "idle"]
    /\ assessment = [is_executed |-> TRUE]
    /\ gemini = [pc |-> "idle"]

NormStep(fn, out) ==
    /\ norm.stage \in {"input", "once"}
    /\ norm.stage = "once" => norm.fn = fn
    /\ norm' = [stage |-> IF norm.stage = "input" THEN "once" ELSE "twice",
                fn |-> fn, val |-> out, prev |-> norm.val]
    /\ UNCHANGED <<deployed, questions, attempts, student_answers, reqs, overrides, grade, served, auto, assessment,
                   gemini>>

\* normalizeText reads text.toLowerCase: it is applied to strings only
ApplyNormalizeText ==
    /\ norm.val.k = "str"
    /\ NormStep("normalizeText", Str(normalizeText(norm.val.s)))

ApplyClean == NormStep("clean", Str(clean(norm.val)))

ApplyCleanAnalytics == NormStep("cleanAnalytics", Str(cleanAnalytics(norm.val)))

NextNorm == ApplyNormalizeText \/ ApplyClean \/ ApplyCleanAnalytics

SpecNorm == InitNorm /\ [][NextNorm]_vars

\* C8: every answer normalization used by grading is idempotent: normalizing
\* an already-normalized value returns it unchanged (normalizeText, the clean
\* of the submission handler and the clean of the analytics view).
NormalizationIdempotent == norm.stage = "twice" => norm.val = norm.prev

\* the part of C8 that the code does satisfy: normalizeText is idempotent
NormalizeTextIdempotent ==
    (norm.stage = "twice" /\ norm.fn = "normalizeText") => norm.val = norm.prev

(***************************************************************************)
(* The database and the submission requests (specification Spec).           *)
(***************************************************************************)
AttemptIds == {1, 2}
ReqIds == 1..MaxRequests

\* what generateAssessmentQuestions stores for a question the generative
\* model returned: correct_answer is JSON.stringify(q.correct_answer ?? ""),
\* the marks are those of the instructor's question block
StoreQuestion(type, rawCorrect, block) ==
    [question_type |-> type,
     correct_answer |-> IF rawCorrect.k = "json" THEN rawCorrect
                        ELSE IF rawCorrect.k = "null" THEN Str(JSONstringify(Str(<<>>)))
                        ELSE Str(JSONstringify(rawCorrect)),
     positive_marks |-> block.positive_marks,
     negative_marks |-> block.negative_marks]

Block(p, n) == [positive_marks |-> p, negative_marks |-> n]

\* the generated questions the model draws from
QuestionPool ==
    {StoreQuestion("multiple_choice", Str(<<"a">>), Block(1, 2)),
     StoreQuestion("short_answer", Json(Rule(<<Str(<<"a">>)>>, NoMin)), Block(2, 1))}

QuestionLists == StringsUpTo(QuestionPool, MaxQuestions) \ {<<>>}

\* attempt 1 is the attempt of the student who sends the submissions;
\* attempt 2 is the id that the INSERT of getAssessmentForInstructorPrint
\* returns, and these are the questions generated for it
StudentAttempt == 1
PrintAttempt == 2
PrintQuestions == <<StoreQuestion("true_false", Str(<<"a">>), Block(2, -1))>>

\* where there is no assessment_attempts row: status "none" before the
\* INSERT, "deleted" after the DELETE
NoAttempt == [status |-> "none", score |-> 0, student_id |-> "none"]
DeletedAttempt == [status |-> "deleted", score |-> 0, student_id |-> "none"]
AttemptExists(a) == attempts[a].status \in {"in_progress", "completed"}

\* the answers a request body may carry for a question; Null: no entry
AnswerChoices == {Null, Str(<<Quote, "a", Quote>>), Str(<<"B">>), Num(<<"4", "2">>)}

\* a student_answers row; exists is FALSE until the row is inserted
NoRow ==
    [exists |-> FALSE, student_answer |-> Null, score |-> 0, scored_marks |-> 0,
     grading_method |-> "none", feedback |-> Null, grading_notes |-> Null,
     overridden_by |-> "none"]

IdleReq ==
    [pc |-> "idle", attempt |-> 0, i |-> 0, totalScore |-> 0, score |-> 0, cause |-> "none"]

\* a faulty variant: the catch swallows the error and the handler goes on
\* to its final UPDATE with what it has summed so far
FailedSwallowed(a, cause) ==
    [pc |-> "update", attempt |-> a, i |-> 0, totalScore |-> 0, score |-> 0, cause |-> cause]

\* a request answered from the catch of the handler: 500, and no score;
\* cause tells what threw: the evaluation of a question or a database write
Failed(a, cause) ==
    [pc |-> "err500", attempt |-> a, i |-> 0, totalScore |-> 0, score |-> 0, cause |-> cause]

Init ==
    /\ deployed \in {"submit", "submitAI"}
    /\ questions \in {qs \in [AttemptIds -> QuestionLists \cup {<<>>}] :
                        qs[StudentAttempt] # <<>> /\ qs[PrintAttempt] = <<>>}
    /\ attempts = [a \in AttemptIds |->
                      IF a = StudentAttempt
                      THEN [status |-> "in_progress", score |-> 0, student_id |-> "student"]
                      ELSE NoAttempt]
    /\ student_answers = [a \in AttemptIds |-> [i \in 1..Len(questions[a]) |-> NoRow]]
    /\ reqs = [r \in ReqIds |-> IdleReq]
    /\ overrides = 0
    /\ norm = [stage |-> "idle"]
    /\ grade = [stage |-> "idle"]
    /\ served = [stage |-> "idle"]
    /\ auto = [stage |-> "idle"]
    /\ assessment = [is_executed |-> TRUE]
    /\ gemini = [pc |-> "idle"]

\* SELECT ... FROM assessment_attempts WHERE id = $1 AND student_id = $2 ...
\* AND status = 'in_progress'; the route admits students only
AttemptInProgress(a) ==
    attempts[a].status = "in_progress" /\ attempts[a].student_id = "student"

\* the student_answer parameter of the INSERT, per copy of the handler
StoredAnswer(q, studentAnswer) ==
    IF deployed = "submit"
    THEN IF studentAnswer.k = "null" THEN Null
         ELSE IF q.question_type = "short_answer" THEN Str(JSONstringify(studentAnswer))
         ELSE Str(String(studentAnswer))
    ELSE Str(JSONstringify(studentAnswer))

\* a faulty variant: no row is written for a question without an answer
UpsertAnswerSkipUnanswered(row, stored, score) ==
    IF stored.k = "null" THEN row
    ELSE [row EXCEPT !.exists = TRUE, !.student_answer = stored, !.score = score]

\* INSERT INTO student_answers ... ON CONFLICT (attempt_id, question_id)
\* DO UPDATE SET student_answer, score
UpsertAnswer(row, stored, score) ==
    [row EXCEPT !.exists = TRUE, !.student_answer = stored, !.score = score]

\* a faulty variant: the total is stored as summed
ClampTotalNone(total) == total

\* totalScore = Math.max(0, totalScore)
ClampTotal(total) == IF total < 0 THEN 0 ELSE total

\* The request arrives and the handler validates the attempt.  Request ids
\* are handed out in the order of arrival.
SubmitValidate(r, a) ==
    /\ reqs[r].pc = "idle"
    /\ r > 1 => reqs[r - 1].pc # "idle"
    /\ reqs' = [reqs EXCEPT ![r] =
                    IF AttemptInProgress(a)
                    THEN [pc |-> IF Len(questions[a]) = 0 THEN "update" ELSE "grading",
                          attempt |-> a, i |-> 1, totalScore |-> 0, score |-> 0,
                          cause |-> "none"]
                    ELSE [pc |-> "bad400", attempt |-> a, i |-> 0, totalScore |-> 0,
                          score |-> 0, cause |-> "none"]]
    /\ UNCHANGED <<deployed, questions, attempts, student_answers, overrides, norm, grade, served, auto, assessment,
                   gemini>>

\* One iteration of the loop over the attempt's questions: the answer is
\* looked up in the request body (read-only, and read for this question in
\* this iteration only, so it is drawn here), scored and upserted.  A throw
\* of the evaluation, and a rejected INSERT (written = FALSE), both leave the
\* loop for the catch of the handler, which answers 500.
SubmitGradeQuestion(r) ==
    /\ reqs[r].pc = "grading"
    /\ LET a == reqs[r].attempt
           i == reqs[r].i
           q == questions[a][i]
       IN  \E studentAnswer \in AnswerChoices, verdict \in Verdicts, written \in BOOLEAN :
             /\ (deployed = "submit" \/ q.question_type # "short_answer") => verdict = "false"
             /\ LET g == IF deployed = "submit" THEN GradeAnswer(q, studentAnswer)
                         ELSE GradeAnswerAI(q, studentAnswer, verdict)
                IN  IF g.threw \/ ~written
                    THEN /\ reqs' = [reqs EXCEPT ![r] =
                                      Failed(a, IF g.threw THEN "evaluation" ELSE "write")]
                         /\ UNCHANGED student_answers
                    ELSE /\ student_answers' =
                                [student_answers EXCEPT ![a][i] =
                                    UpsertAnswer(@, StoredAnswer(q, studentAnswer), g.score)]
                         /\ reqs' = [reqs EXCEPT
                                ![r].i = i + 1,
                                ![r].totalScore = @ + g.score,
                                ![r].pc = IF i = Len(questions[a]) THEN "update" ELSE "grading"]
    /\ UNCHANGED <<deployed, questions, attempts, overrides, norm, grade, served, auto, assessment,
                   gemini>>

\* UPDATE assessment_attempts SET status = 'completed', score = $1, and the
\* 200 response carrying the same score; a rejected UPDATE ends in the catch
SubmitUpdateAttempt(r) ==
    /\ reqs[r].pc = "update"
    /\ \E written \in BOOLEAN :
          IF written
          THEN /\ attempts' = [attempts EXCEPT
                                  ![reqs[r].attempt].status = "completed",
                                  ![reqs[r].attempt].score = ClampTotal(reqs[r].totalScore)]
               /\ reqs' = [reqs EXCEPT ![r].pc = "ok200",
                                       ![r].score = ClampTotal(reqs[r].totalScore)]
          ELSE /\ reqs' = [reqs EXCEPT ![r] = Failed(reqs[r].attempt, "write")]
               /\ UNCHANGED attempts
    /\ UNCHANGED <<deployed, questions, student_answers, overrides, norm, grade, served, auto, assessment,
                   gemini>>

\* the scores and reasons an instructor may send to POST /override
OverrideScores == {3}
OverrideReasons == {Str(<<>>), Str(<<"r">>)}

\* overrideGrading: UPDATE student_answers SET scored_marks, feedback,
\* grading_method = 'manual_override', grading_notes, overridden_by WHERE id
overrideGrading(row, newScore, feedback, overrideReason, instructorId) ==
    IF row.exists
    THEN [row EXCEPT !.scored_marks = newScore, !.feedback = feedback,
                     !.grading_method = "manual_override",
                     !.grading_notes = overrideReason, !.overridden_by = instructorId]
    ELSE row

\* a faulty variant: the override also stores the new score as the marks of
\* the question
OverrideRouteOnQuestion(a, i, newScore, reason) ==
    /\ overrides < MaxOverrides
    /\ overrides' = overrides + 1
    /\ student_answers' = [student_answers EXCEPT ![a][i] =
                              overrideGrading(@, newScore, Null, reason, "instructor")]
    /\ questions' = [questions EXCEPT ![a][i].positive_marks = newScore]
    /\ UNCHANGED <<deployed, attempts, reqs, norm, grade, served, auto, assessment, gemini>>

\* POST /override: the request is rejected when the reason is missing,
\* otherwise the answer row with the given id (if any) is updated; the
\* attempt row is not touched.  The UPDATE names columns that no CREATE TABLE
\* of the repository adds to student_answers: on a database without them it
\* throws and the route answers 500 (updated = FALSE).
OverrideRoute(a, i, newScore, reason) ==
    /\ overrides < MaxOverrides
    /\ overrides' = overrides + 1
    /\ \E updated \in BOOLEAN :
          student_answers' =
              IF Truthy(reason) /\ updated
              THEN [student_answers EXCEPT ![a][i] =
                        overrideGrading(@, newScore, Null, reason, "instructor")]
              ELSE student_answers
    /\ UNCHANGED <<deployed, questions, attempts, reqs, norm, grade, served, auto, assessment, gemini>>

(***************************************************************************)
(* getAssessmentForInstructorPrint: a temporary attempt owned by the        *)
(* instructor is inserted as in_progress, questions are generated for it,   *)
(* and it is marked completed; when generation throws the attempt is        *)
(* deleted (its questions go with it, ON DELETE CASCADE).  The position of  *)
(* the handler shows in the database: no row, row without questions, row    *)
(* with questions.                                                          *)
(***************************************************************************)
PrintCreateAttempt ==
    /\ attempts[PrintAttempt].status = "none"
    /\ attempts' = [attempts EXCEPT ![PrintAttempt] =
                        [status |-> "in_progress", score |-> 0, student_id |-> "instructor"]]
    /\ UNCHANGED <<deployed, questions, student_answers, reqs, overrides, norm, grade, served, auto, assessment,
                   gemini>>

PrintGenerate ==
    /\ attempts[PrintAttempt].status = "in_progress"
    /\ questions[PrintAttempt] = <<>>
    /\ questions' = [questions EXCEPT ![PrintAttempt] = PrintQuestions]
    /\ student_answers' = [student_answers EXCEPT ![PrintAttempt] =
                                [i \in 1..Len(PrintQuestions) |-> NoRow]]
    /\ UNCHANGED <<deployed, attempts, reqs, overrides, norm, grade, served, auto, assessment, gemini>>

PrintFail ==
    /\ attempts[PrintAttempt].status = "in_progress"
    /\ questions[PrintAttempt] = <<>>
    /\ attempts' = [attempts EXCEPT ![PrintAttempt] = DeletedAttempt]
    /\ UNCHANGED <<deployed, questions, student_answers, reqs, overrides, norm, grade, served, auto, assessment,
                   gemini>>

PrintComplete ==
    /\ attempts[PrintAttempt].status = "in_progress"
    /\ questions[PrintAttempt] # <<>>
    /\ attempts' = [attempts EXCEPT ![PrintAttempt].status = "completed"]
    /\ UNCHANGED <<deployed, questions, student_answers, reqs, overrides, norm, grade, served, auto, assessment,
                   gemini>>

Next ==
    \/ \E r \in ReqIds, a \in AttemptIds : SubmitValidate(r, a)
    \/ \E r \in ReqIds : SubmitGradeQuestion(r)
    \/ \E r \in ReqIds : SubmitUpdateAttempt(r)
    \/ \E a \in AttemptIds : \E i \in 1..Len(questions[a]) :
          \E newScore \in OverrideScores, reason \in OverrideReasons :
             OverrideRoute(a, i, newScore, reason)
    \/ PrintCreateAttempt
    \/ PrintGenerate
    \/ PrintFail
    \/ PrintComplete

Spec == Init /\ [][Next]_vars

(***************************************************************************)
(* Properties of the attempt score (specification Spec).                    *)
(***************************************************************************)
RECURSIVE SumSeq(_)
SumSeq(s) == IF Len(s) = 0 THEN 0 ELSE s[1] + SumSeq(Tail(s))

\* the score of an answer as it stands: the override's scored_marks once the
\* answer was overridden, the submission's score otherwise
CurrentScore(row) ==
    IF ~row.exists THEN 0
    ELSE IF row.grading_method = "manual_override" THEN row.scored_marks
    ELSE row.score

\* C1: the score stored on an attempt and the score returned by a completed
\* submission are never negative, also when the per-question scores of the
\* submission add up to a negative number.
ScoreNeverNegative ==
    /\ \A a \in AttemptIds : attempts[a].score >= 0
    /\ \A r \in ReqIds :
          reqs[r].pc = "ok200" =>
             /\ reqs[r].score >= 0
             /\ reqs[r].score = (IF reqs[r].totalScore < 0 THEN 0 ELSE reqs[r].totalScore)

\* a submission whose per-question scores add up to less than zero has
\* completed: the attempt holds 0 and 0 was returned
NegativeSumClamped ==
    \E r \in ReqIds :
        /\ reqs[r].pc = "ok200"
        /\ reqs[r].totalScore < 0
        /\ reqs[r].score = 0
        /\ attempts[reqs[r].attempt].status = "completed"
        /\ attempts[reqs[r].attempt].score = 0

\* C2: in every reachable state a completed attempt's stored score equals
\* max(0, sum of the current per-question scores of its answers), also after
\* overrideGrading changed the score of one of its answers.
AttemptScoreIsAggregate ==
    \A a \in AttemptIds :
        attempts[a].status = "completed" =>
            attempts[a].score =
                LET total == SumSeq([i \in 1..Len(questions[a]) |->
                                        CurrentScore(student_answers[a][i])])
                IN  IF total < 0 THEN 0 ELSE total

(***************************************************************************)
(* Properties of the stored answers (specification Spec).                   *)
(***************************************************************************)
\* the student_answer a handler stores for a question without an answer
IsUnansweredRow(row) ==
    /\ row.exists
    /\ \/ deployed = "submit" /\ row.student_answer = Null
       \/ deployed = "submitAI" /\ row.student_answer = Str(JSONstringify(Null))

\* C3: after a successful submission the attempt has one student_answers
\* row per generated question, whatever the request answered; the loop
\* visited every question once, and a question without an answer has its
\* own row under (attempt_id, question_id), which the handler of lines
\* 469-575 writes with score 0.
OneRowPerQuestion ==
    /\ \A r \in ReqIds :
          reqs[r].pc \in {"update", "ok200"} =>
              LET a == reqs[r].attempt
              IN  /\ reqs[r].i = Len(questions[a]) + 1
                  /\ Cardinality({i \in 1..Len(questions[a]) : student_answers[a][i].exists})
                        = Len(questions[a])
    /\ deployed = "submit" =>
          \A a \in AttemptIds : \A i \in 1..Len(questions[a]) :
              IsUnansweredRow(student_answers[a][i]) => student_answers[a][i].score = 0

\* a submission that answered the first of two questions only has completed
PartlyAnsweredSubmitted ==
    \E r \in ReqIds :
        LET a == reqs[r].attempt
        IN  /\ reqs[r].pc = "ok200"
            /\ attempts[a].status = "completed"
            /\ Len(questions[a]) = 2
            /\ student_answers[a][1].exists /\ ~IsUnansweredRow(student_answers[a][1])
            /\ IsUnansweredRow(student_answers[a][2])
            /\ student_answers[a][2].score = 0

\* C4: the score stored for a question the submission carried no answer
\* for is exactly 0, for every question type and every negative_marks.
UnansweredScoresZero ==
    \A a \in AttemptIds : \A i \in 1..Len(questions[a]) :
        IsUnansweredRow(student_answers[a][i]) => student_answers[a][i].score = 0

(***************************************************************************)
(* Properties of the attempt status and of concurrent submissions           *)
(* (specification Spec).                                                    *)
(***************************************************************************)
\* request r is between its in-progress check and its final UPDATE
Grading(r) == reqs[r].pc \in {"grading", "update"}

\* what a step may do to the status of an attempt a that exists before and
\* after the step
StatusStep(a) ==
    (AttemptExists(a) /\ AttemptExists(a)') =>
        /\ attempts'[a].status # attempts[a].status =>
              /\ attempts[a].status = "in_progress"
              /\ attempts'[a].status = "completed"
              /\ \E r \in ReqIds :
                    /\ reqs[r].pc = "update" /\ reqs'[r].pc = "ok200"
                    /\ reqs[r].attempt = a
                    /\ \A i \in 1..Len(questions[a]) : student_answers[a][i].exists
        /\ attempts[a].status = "completed" => attempts'[a].status = "completed"

\* what the arrival of request r may do
ArrivalStep(r) ==
    (reqs[r].pc = "idle" /\ reqs'[r].pc # "idle") =>
        LET a == reqs'[r].attempt
        IN  /\ reqs'[r].pc = "grading" => attempts[a].status = "in_progress"
            /\ attempts[a].status = "completed" =>
                  /\ reqs'[r].pc = "bad400"
                  /\ attempts' = attempts
                  /\ student_answers' = student_answers

\* C9: the status of an attempt changes only from in_progress to completed,
\* and only in the final step of a submission that wrote a row for every
\* question; a submission is accepted only while the attempt is in_progress;
\* one that arrives for a completed attempt is rejected, changes no stored
\* answer and no attempt score, and stays rejected; completed is never left.
StatusOnlyAdvances ==
    [][/\ \A a \in AttemptIds : StatusStep(a)
       /\ \A r \in ReqIds : ArrivalStep(r)
       /\ \A r \in ReqIds : reqs[r].pc = "bad400" => reqs'[r] = reqs[r]]_vars

\* C10: of the submission requests for one attempt, at most one at a time is
\* past the in-progress check and writing scores.
GradingSerialized ==
    \A a \in AttemptIds :
        Cardinality({r \in ReqIds : Grading(r) /\ reqs[r].attempt = a}) <= 1

(***************************************************************************)
(* Properties of failures during a submission (specification Spec).         *)
(***************************************************************************)
\* C11: a question whose evaluation throws never aborts the grading of the
\* attempt: the submission goes on with the remaining questions (the
\* question being left for manual grading with score 0), so no submission
\* ends in the handler's catch because of an evaluation.
EvaluationThrowNeverAborts ==
    \A r \in ReqIds : ~(reqs[r].pc = "err500" /\ reqs[r].cause = "evaluation")

\* request r is answered 200 in this step
Completes(r) == reqs[r].pc # "ok200" /\ reqs'[r].pc = "ok200"

\* C12: a submission whose database write is rejected ends with an explicit
\* failure (500) that carries no score and stays failed; a score is stored
\* on an attempt, and reported, only in the final step of a submission that
\* went through every question and after a row was written for each of
\* them, so no total of a part of the questions is persisted or reported.
NoPartialTotal ==
    /\ [](\A r \in ReqIds : reqs[r].pc = "err500" => reqs[r].score = 0)
    /\ [][/\ \A r \in ReqIds :
               /\ reqs[r].pc = "err500" => reqs'[r] = reqs[r]
               /\ reqs'[r].pc = "err500" /\ reqs[r].pc # "err500" =>
                     /\ attempts' = attempts
                     /\ reqs[r].pc \in {"grading", "update"}
               /\ Completes(r) =>
                     LET a == reqs[r].attempt
                     IN  /\ reqs[r].pc = "update"
                         /\ reqs[r].i = Len(questions[a]) + 1
                         /\ \A i \in 1..Len(questions[a]) : student_answers[a][i].exists
                         /\ attempts'[a].score = ClampTotal(reqs[r].totalScore)
                         /\ reqs'[r].score = attempts'[a].score
          /\ \A a \in AttemptIds :
               attempts'[a].score # attempts[a].score =>
                   \E r \in ReqIds : Completes(r) /\ reqs[r].attempt = a]_vars

\* the INSERT of the second of two questions was rejected: the request got
\* 500, the first row is stored, the attempt is in_progress without a score
WriteFailedMidway ==
    \E r \in ReqIds :
        LET a == reqs[r].attempt
        IN  /\ reqs[r].pc = "err500" /\ reqs[r].cause = "write"
            /\ Len(questions[a]) = 2
            /\ student_answers[a][1].exists /\ ~student_answers[a][2].exists
            /\ attempts[a].status = "in_progress" /\ attempts[a].score = 0

(***************************************************************************)
(* POST /api/auto-grading/override with every kind of request              *)
(* (specification SpecOverride).  The database holds a submitted attempt    *)
(* with its answer rows and a printed attempt without any; served is the    *)
(* last request with the status it was answered with.                       *)
(***************************************************************************)
\* a field the JSON body does not carry (undefined in the handler)
Missing == [k |-> "undefined", s |-> <<>>]

Digits == <<"0", "1", "2", "3", "4", "5", "6", "7", "8", "9">>
IsDigit(c) == \E n \in 1..Len(Digits) : Digits[n] = c
DigitValue(c) == (CHOOSE n \in 1..Len(Digits) : Digits[n] = c) - 1

RECURSIVE LeadingDigits(_)
LeadingDigits(s) ==
    IF Len(s) = 0 \/ ~IsDigit(s[1]) THEN <<>> ELSE <<s[1]>> \o LeadingDigits(Tail(s))

RECURSIVE DigitsValue(_)
DigitsValue(d) ==
    IF Len(d) = 0 THEN 0 ELSE 10 * DigitsValue(SubSeq(d, 1, Len(d) - 1)) + DigitValue(d[Len(d)])

\* the number NaN, kept apart from every number a score or an id can be
NaN == -1000

\* parseInt(x): the digits that lead String(x) after its white space, NaN
\* when there are none (the model sends no sign)
parseInt(v) ==
    LET d == LeadingDigits(trimStart(IF v.k = "undefined" THEN <<>> ELSE String(v)))
    IN  IF d = <<>> THEN NaN ELSE DigitsValue(d)

\* parseFloat(x): as parseInt on what the model sends (no sign, point or
\* exponent)
parseFloat(v) == parseInt(v)

\* a query parameter: node-postgres sends undefined as NULL
SqlParam(v) == IF v.k = "undefined" THEN Null ELSE v

\* student_answers.id (SERIAL) of the answer to question i of attempt a
AnswerId(a, i) == (a - 1) * MaxQuestions + i

\* assessments.instructor_id of the assessment both attempts belong to
AssessmentOwner == "instructor"

\* req.user as set by protect: the owner, another instructor, a student
OverrideUsers ==
    {[id |-> "instructor", role |-> "instructor"],
     [id |-> "other", role |-> "instructor"],
     [id |-> "student", role |-> "student"]}

\* req.body of the override request; instructor_id is a user id, "none"
\* when the body has none
OverrideBodies ==
    [answer_id : {Missing} \cup {Num(<<Digits[n + 1]>>) : n \in 1..(MaxQuestions + 1)},
     new_score : {Missing, Num(<<"3">>), Str(<<"a">>)},
     feedback : {Missing, Str(<<"a">>)},
     override_reason : {Missing, Str(<<>>), Str(<<"r">>)},
     instructor_id : {"none", "other"}]

\* the questions of the submitted attempt
SubmittedQuestions ==
    <<StoreQuestion("multiple_choice", Str(<<"a">>), Block(1, 2)),
      StoreQuestion("short_answer", Json(Rule(<<Str(<<"a">>)>>, NoMin)), Block(2, 1))>>

\* what the student answered to them; Null: no answer
SubmittedAnswers == {Null, Str(<<Quote, "a", Quote>>), Str(<<"B">>)}

\* the rows and the score that a successful submission of the answers
\* leaves (the loop and the final UPDATE of submitAssessmentForStudent)
RowsOfSubmission(qs, answers) ==
    [i \in 1..Len(qs) |->
        UpsertAnswer(NoRow, StoredAnswer(qs[i], answers[i]), GradeAnswer(qs[i], answers[i]).score)]
ScoreOfSubmission(qs, answers) ==
    ClampTotal(SumSeq([i \in 1..Len(qs) |-> GradeAnswer(qs[i], answers[i]).score]))

InitOverride ==
    /\ deployed = "submit"
    /\ questions = [a \in AttemptIds |->
                       IF a = StudentAttempt THEN SubmittedQuestions ELSE PrintQuestions]
    /\ \E answers \in [1..Len(SubmittedQuestions) -> SubmittedAnswers] :
          /\ \A i \in 1..Len(SubmittedQuestions) :
                ~GradeAnswer(SubmittedQuestions[i], answers[i]).threw
          /\ student_answers =
                [a \in AttemptIds |->
                    IF a = StudentAttempt THEN RowsOfSubmission(SubmittedQuestions, answers)
                    ELSE [i \in 1..Len(PrintQuestions) |-> NoRow]]
          /\ attempts =
                [a \in AttemptIds |->
                    IF a = StudentAttempt
                    THEN [status |-> "completed",
                          score |-> ScoreOfSubmission(SubmittedQuestions, answers),
                          student_id |-> "student"]
                    ELSE [status |-> "completed", score |-> 0, student_id |-> "instructor"]]
    /\ reqs = [r \in ReqIds |-> IdleReq]
    /\ overrides = 0
    /\ norm = [stage |-> "idle"]
    /\ grade = [stage |-> "idle"]
    /\ served = [stage |-> "idle"]
    /\ auto = [stage |-> "idle"]
    /\ assessment = [is_executed |-> TRUE]
    /\ gemini = [pc |-> "idle"]

\* the status the route answers with: 403 from authorizeRoles("instructor"),
\* 400 from the check of the body, 500 from the catch, 200 otherwise
OverrideStatus(user, body, updated) ==
    IF user.role # "instructor" THEN 403
    ELSE IF \/ ~Truthy(body.answer_id)
            \/ body.new_score.k = "undefined"
            \/ ~Truthy(body.override_reason) THEN 400
    ELSE IF updated THEN 200
    ELSE 500

\* instructor_id || req.user.id
OverriddenBy(user, body) ==
    IF body.instructor_id # "none" THEN body.instructor_id ELSE user.id

\* a faulty variant: the UPDATE reaches every answer of the attempt that
\* the answer with the given id belongs to
MatchesAttemptOfId(a, i, id) == \E j \in 1..MaxQuestions : AnswerId(a, j) = id

\* WHERE id = $5 of the UPDATE of overrideGrading
MatchesId(a, i, id) == AnswerId(a, i) = id

\* The whole request: authorization, the check of the body, the UPDATE of
\* overrideGrading (WHERE id = parseInt(answer_id): every row with that id,
\* none when there is no such row) and the response.  updated = FALSE is an
\* UPDATE the database rejects; it is drawn only where an UPDATE is sent.
OverrideRequest(user, body) ==
    /\ overrides < MaxOverrideRequests
    /\ \E updated \in BOOLEAN :
        LET status == OverrideStatus(user, body, updated)
        IN  /\ OverrideStatus(user, body, TRUE) # 200 => updated
            /\ overrides' = overrides + 1
            /\ student_answers' =
                  IF status = 200
                  THEN [a \in AttemptIds |->
                          [i \in DOMAIN student_answers[a] |->
                              IF MatchesId(a, i, parseInt(body.answer_id))
                              THEN overrideGrading(student_answers[a][i],
                                                   parseFloat(body.new_score),
                                                   SqlParam(body.feedback),
                                                   body.override_reason,
                                                   OverriddenBy(user, body))
                              ELSE student_answers[a][i]]]
                  ELSE student_answers
            /\ served' = [stage |-> "done", user |-> user, body |-> body, status |-> status]
            /\ UNCHANGED <<deployed, questions, attempts, reqs, norm, grade, auto, assessment, gemini>>

NextOverride == \E user \in OverrideUsers, body \in OverrideBodies : OverrideRequest(user, body)

SpecOverride == InitOverride /\ [][NextOverride]_vars

(***************************************************************************)
(* Properties of the override route (specification SpecOverride).           *)
(***************************************************************************)
\* the request just served addressed the answer to question i of attempt a
Addressed(a, i) == AnswerId(a, i) = parseInt(served'.body.answer_id)

\* C13: an override changes nothing but the addressed answer's scored marks,
\* feedback, grading method and audit fields (notes, overridden_by): the
\* answer text and existence of that row, every other answer row of the same
\* and of any other attempt, the attempts and the questions stay as they were.
OverrideChangesOneAnswer ==
    [][/\ attempts' = attempts
       /\ questions' = questions
       /\ \A a \in AttemptIds : \A i \in DOMAIN student_answers[a] :
             /\ student_answers'[a][i].exists = student_answers[a][i].exists
             /\ student_answers'[a][i].student_answer = student_answers[a][i].student_answer
             /\ student_answers'[a][i].score = student_answers[a][i].score
             /\ ~Addressed(a, i) => student_answers'[a][i] = student_answers[a][i]]_vars

\* an accepted override of the first answer of the submitted attempt, with
\* the second answer of that attempt still as the submission left it
OneAnswerOverridden ==
    /\ served.stage = "done" /\ served.status = 200
    /\ parseInt(served.body.answer_id) = AnswerId(StudentAttempt, 1)
    /\ student_answers[StudentAttempt][1].grading_method = "manual_override"
    /\ student_answers[StudentAttempt][1].scored_marks = 3
    /\ student_answers[StudentAttempt][2].exists
    /\ student_answers[StudentAttempt][2].grading_method = "none"

\* some answer row has the id that the request just served named
AnswerFound ==
    \E a \in AttemptIds : \E i \in DOMAIN student_answers[a] :
        Addressed(a, i) /\ student_answers[a][i].exists

\* C14: an override requested by a user who does not own the assessment, or
\* for an answer id that no answer has, is rejected (not answered as a
\* success) and leaves every answer row as it was.
ForeignOverrideRejected ==
    [][(served'.user.id # AssessmentOwner \/ ~AnswerFound) =>
          /\ served'.status # 200
          /\ student_answers' = student_answers]_vars

\* what the body of an override request lacks
NoAnswerId(body) == body.answer_id.k = "undefined"
NoReason(body) == body.override_reason.k = "undefined" \/ body.override_reason.s = <<>>
ScoreNotNumeric(body) == parseFloat(body.new_score) = NaN

ClientError == 400..499

\* C15: a request without an answer id, without a reason (missing or empty)
\* or with a new score that is not a number is answered with a 4xx status
\* and leaves every answer row as it was.
MalformedOverrideRejected ==
    [][(NoAnswerId(served'.body) \/ NoReason(served'.body) \/ ScoreNotNumeric(served'.body)) =>
          /\ served'.status \in ClientError
          /\ student_answers' = student_answers]_vars

\* the part of C15 that the route does satisfy: without an answer id or
\* without a reason the request is answered 4xx and nothing is written
IncompleteOverrideRejected ==
    [][(NoAnswerId(served'.body) \/ NoReason(served'.body)) =>
          /\ served'.status \in ClientError
          /\ student_answers' = student_answers]_vars

\* C16: once an override was accepted, the addressed answer carries the new
\* score, grading method 'manual_override', the reason as its grading notes,
\* the given feedback, and as overridden_by the authenticated instructor who
\* sent the request.
AcceptedOverrideRecorded ==
    (served.stage = "done" /\ served.status = 200) =>
        \A a \in AttemptIds : \A i \in DOMAIN student_answers[a] :
            (AnswerId(a, i) = parseInt(served.body.answer_id) /\ student_answers[a][i].exists) =>
                /\ student_answers[a][i].scored_marks = parseFloat(served.body.new_score)
                /\ student_answers[a][i].grading_method = "manual_override"
                /\ student_answers[a][i].grading_notes = served.body.override_reason
                /\ student_answers[a][i].feedback = SqlParam(served.body.feedback)
                /\ student_answers[a][i].overridden_by = served.user.id

(***************************************************************************)
(* gradeAssessmentAttempt and the manual-grading list (specification        *)
(* SpecAuto).  questions holds the rows of the questions table that the     *)
(* service reads (marks, rubric), student_answers the answer rows, attempts *)
(* the attempt with its grading columns, auto the position and the locals  *)
(* of the one grading run.                                                  *)
(***************************************************************************)
\* a text the service writes, kept whole
Message(text) == [k |-> "str", s |-> <<text>>]

\* a row of the questions table
AutoQuestion(type, marks, rubric) ==
    [question_type |-> type, correct_answer |-> Str(<<"a">>), rubric |-> rubric, marks |-> marks]

\* an essay without rubric, an essay whose rubric is an object without
\* criteria, a true/false question, a multiple-choice question and a
\* question of a type the service does not grade
AutoQuestionPool ==
    {AutoQuestion("essay", 2, Null),
     AutoQuestion("multiple_choice", 1, Null),
     AutoQuestion("essay", 2, Json(Rule(<<>>, NoMin))),
     AutoQuestion("true_false", 1, Null),
     AutoQuestion("matching", 3, Null)}

AutoQuestionLists == StringsUpTo(AutoQuestionPool, MaxQuestions) \ {<<>>}

\* an attempt row with its grading columns; grading_status "null" is NULL
AutoAttempt(status, owner) ==
    [status |-> status, score |-> 0, student_id |-> owner,
     total_marks |-> 0, scored_marks |-> 0, percentage |-> 0,
     auto_graded_count |-> 0, manual_grading_required |-> 0, grading_status |-> "null"]

\* an answer row as the service reads it: selected_options is the list of
\* options the student ticked
AutoRow(selected) ==
    [exists |-> TRUE, student_answer |-> Str(<<"a">>), selected_options |-> selected,
     score |-> 0, scored_marks |-> 0, grading_method |-> "none", feedback |-> Null,
     grading_notes |-> Null, overridden_by |-> "none"]

\* nothing ticked, or the option that is the correct answer of every
\* question of the pool
SelectedOptions == {<<>>, <<Str(<<"a">>)>>}

IdleRun ==
    [pc |-> "idle", attempt |-> 0, rows |-> <<>>, i |-> 0, totalMarks |-> 0, scoredMarks |-> 0,
     autoGradedCount |-> 0, manualGradingRequired |-> 0, cause |-> "none",
     locals |-> [scored_marks |-> 0, grading_method |-> "auto"]]

\* (locals: scoredMarks and gradingMethod of the last call of gradeQuestion)

\* the run has thrown: cause is what threw
RejectedRun(run, cause) == [run EXCEPT !.pc = "rejected", !.cause = cause]

\* Attempt 1 has answer rows for its first `have` questions: all of them
\* after a submission, fewer while the attempt is in progress or after a
\* submission that failed midway.  There is no attempt 2.
InitAuto ==
    /\ deployed = "submit"
    /\ questions \in {qs \in [AttemptIds -> AutoQuestionLists \cup {<<>>}] :
                        qs[StudentAttempt] # <<>> /\ qs[PrintAttempt] = <<>>}
    /\ \E have \in 0..MaxQuestions, selected \in SelectedOptions :
          /\ have <= Len(questions[StudentAttempt])
          /\ have = 0 => selected = <<>>
          /\ student_answers =
                [a \in AttemptIds |->
                    [i \in 1..Len(questions[a]) |->
                        IF i <= have THEN AutoRow(selected) ELSE NoRow]]
          /\ attempts =
                [a \in AttemptIds |->
                    IF a = StudentAttempt
                    THEN AutoAttempt(IF have = Len(questions[a]) THEN "completed"
                                     ELSE "in_progress", "student")
                    ELSE AutoAttempt("none", "none")]
    /\ reqs = [r \in ReqIds |-> IdleReq]
    /\ overrides = 0
    /\ norm = [stage |-> "idle"]
    /\ grade = [stage |-> "idle"]
    /\ served = [stage |-> "idle"]
    /\ auto = IdleRun
    /\ assessment = [is_executed |-> TRUE]
    /\ gemini = [pc |-> "idle"]

\* gradeMultipleChoice
gradeMultipleChoice(selectedOptions, correctAnswer, marks) ==
    IF selectedOptions = <<>> THEN [scored_marks |-> 0, grading_method |-> "auto"]
    ELSE [scored_marks |-> IF \E n \in 1..Len(selectedOptions) : selectedOptions[n] = correctAnswer
                           THEN marks ELSE 0,
          grading_method |-> "auto"]

\* gradeTrueFalse
gradeTrueFalse(studentAnswer, correctAnswer, marks) ==
    IF ~Truthy(studentAnswer) THEN [scored_marks |-> 0, grading_method |-> "auto"]
    ELSE [scored_marks |-> IF toLowerCase(String(studentAnswer)) = toLowerCase(String(correctAnswer))
                           THEN marks ELSE 0,
          grading_method |-> "auto"]

\* s.split(/\s+/): the pieces of s between its runs of white space
RECURSIVE SplitFrom(_, _, _)
SplitFrom(s, word, afterSpace) ==
    IF Len(s) = 0 THEN <<word>>
    ELSE IF IsSpace(s[1])
         THEN IF afterSpace THEN SplitFrom(Tail(s), <<>>, TRUE)
              ELSE <<word>> \o SplitFrom(Tail(s), <<>>, TRUE)
    ELSE SplitFrom(Tail(s), Append(word, s[1]), FALSE)
SplitSpaces(s) == SplitFrom(s, <<>>, FALSE)

\* Math.round(n / d) for d > 0
RoundDiv(n, d) == (2 * n + d) \div (2 * d)

\* a criterion of a rubric: keywords is a list of strings, description
\* tells whether the criterion has one
Criterion(maxMarks, keywords, description) ==
    [max_marks |-> maxMarks, keywords |-> keywords, description |-> description]

\* rubric.criteria || []
CriteriaOf(rubric) == IF "criteria" \in DOMAIN rubric THEN rubric.criteria ELSE <<>>

\* the expected length of an answer in the description branch
MinAnswerLength == 50

\* criterionScore of one criterion: the share of its keywords that are
\* words of the answer, or the share of the expected length the answer has
\* (capped at max_marks), or 0
CriterionScore(studentAnswer, criterion) ==
    IF Len(criterion.keywords) > 0
    THEN LET studentWords == SplitSpaces(toLowerCase(studentAnswer))
             found == {n \in 1..Len(criterion.keywords) :
                          \E w \in 1..Len(studentWords) :
                              studentWords[w] = toLowerCase(criterion.keywords[n])}
         IN  RoundDiv(Cardinality(found) * criterion.max_marks, Len(criterion.keywords))
    ELSE IF criterion.description
    THEN LET score == RoundDiv(Len(studentAnswer) * criterion.max_marks, MinAnswerLength)
         IN  IF Len(studentAnswer) >= MinAnswerLength /\ score > criterion.max_marks
             THEN criterion.max_marks ELSE score
    ELSE 0

\* applyRubricGrading: the criterion scores added up, grading_method 'auto'
applyRubricGrading(studentAnswer, rubric, marks) ==
    LET criteria == CriteriaOf(rubric)
    IN  [scored_marks |-> SumSeq([n \in 1..Len(criteria) |->
                              CriterionScore(String(studentAnswer), criteria[n])]),
         grading_method |-> "auto"]

\* gradeByKeywordMatching: manual without an expected answer; otherwise the
\* words are counted and the returned object literal reads scored_marks,
\* which is declared nowhere (the local is scoredMarks): a ReferenceError
gradeByKeywordMatching(studentAnswer, expectedAnswer, marks) ==
    IF ~Truthy(expectedAnswer)
    THEN [threw |-> FALSE, scored_marks |-> 0, grading_method |-> "manual"]
    ELSE [threw |-> TRUE, scored_marks |-> 0, grading_method |-> "none"]

\* gradeEssay: manual without an answer, manual without a rubric, manual
\* when the rubric does not parse, the rubric's score otherwise
gradeEssay(studentAnswer, rubric, marks) ==
    IF ~Truthy(studentAnswer) \/ trim(String(studentAnswer)) = <<>>
    THEN [scored_marks |-> 0, grading_method |-> "manual"]
    ELSE IF rubric.k = "null" \/ (rubric.k = "json" /\ rubric.doc = "falsy")
    THEN [scored_marks |-> 0, grading_method |-> "manual"]
    ELSE IF rubric.k # "json" \/ rubric.doc = "invalid"
    THEN [scored_marks |-> 0, grading_method |-> "manual"]
    ELSE applyRubricGrading(studentAnswer, rubric.rule, marks)

\* the switch of gradeQuestion: the locals scoredMarks and gradingMethod.
\* student_answer is destructured from a row that has no such column
\* (getQuestionsAndAnswers selects answer_text), so it is undefined.
GradingLocals(q, row) ==
    CASE q.question_type = "multiple_choice" ->
             gradeMultipleChoice(row.selected_options, q.correct_answer, q.marks)
      [] q.question_type = "true_false" -> gradeTrueFalse(Missing, q.correct_answer, q.marks)
      [] q.question_type = "essay" -> gradeEssay(Missing, q.rubric, q.marks)
      [] OTHER -> [scored_marks |-> 0, grading_method |-> "manual"]

\* a faulty variant: the catch records the question as auto-graded
FailedGradingAsAuto(message) ==
    [scored_marks |-> 0, grading_method |-> "auto",
     feedback |-> Message("Auto-grading failed - requires manual review"),
     grading_notes |-> message]

\* what the catch of gradeQuestion saves and returns
FailedGrading(message) ==
    [scored_marks |-> 0, grading_method |-> "manual",
     feedback |-> Message("Auto-grading failed - requires manual review"),
     grading_notes |-> message]

\* gradeQuestion: after the switch, the object literal handed to
\* saveGradingResult reads scored_marks, which is declared nowhere (the local
\* is scoredMarks): a ReferenceError for every question, caught by the catch
GradeQuestionResult(q) == FailedGrading(Message("Error: scored_marks is not defined"))

\* saveGradingResult: UPDATE student_answers SET scored_marks,
\* grading_method, feedback, grading_notes, graded_at WHERE id
saveGradingResult(row, gradingData) ==
    [row EXCEPT !.scored_marks = gradingData.scored_marks,
                !.grading_method = gradingData.grading_method,
                !.feedback = gradingData.feedback,
                !.grading_notes = gradingData.grading_notes]

\* a faulty variant: an attempt is fully graded whatever was left to grade
GradingStatusAlwaysFull(manualGradingRequired) == "fully_graded"

\* manualGradingRequired > 0 ? 'partially_graded' : 'fully_graded'
GradingStatus(manualGradingRequired) ==
    IF manualGradingRequired > 0 THEN "partially_graded" ELSE "fully_graded"

\* totalMarks > 0 ? Math.round((scoredMarks / totalMarks) * 100) : 0
Percentage(scoredMarks, totalMarks) ==
    IF totalMarks > 0 THEN (200 * scoredMarks + totalMarks) \div (2 * totalMarks) ELSE 0

\* getQuestionsAndAnswers: student_answers JOIN questions: the questions of
\* the attempt that have an answer row, in the order of the questions
RECURSIVE AnsweredFrom(_, _)
AnsweredFrom(a, i) ==
    IF i > Len(questions[a]) THEN <<>>
    ELSE (IF student_answers[a][i].exists THEN <<i>> ELSE <<>>) \o AnsweredFrom(a, i + 1)
getQuestionsAndAnswers(a) == AnsweredFrom(a, 1)

\* getAttemptDetails and getQuestionsAndAnswers
AutoStart(a) ==
    /\ auto.pc = "idle"
    /\ auto' = IF ~AttemptExists(a)
               THEN RejectedRun([IdleRun EXCEPT !.attempt = a], "not_found")
               ELSE [IdleRun EXCEPT !.attempt = a, !.rows = getQuestionsAndAnswers(a), !.i = 1,
                                    !.pc = IF getQuestionsAndAnswers(a) = <<>> THEN "update"
                                           ELSE "loop"]
    /\ UNCHANGED <<deployed, questions, attempts, student_answers, reqs, overrides, norm, grade, served, assessment,
                   gemini>>

\* One iteration of the loop: gradeQuestion saves its result on the answer
\* row and the totals are advanced.  When the UPDATE of the catch is
\* rejected (written = FALSE) gradeQuestion throws and the run ends.
AutoGradeQuestion ==
    /\ auto.pc = "loop"
    /\ LET a == auto.attempt
           i == auto.rows[auto.i]
           q == questions[a][i]
           gradingResult == GradeQuestionResult(q)
       IN  \E written \in BOOLEAN :
             IF ~written
             THEN /\ auto' = RejectedRun([auto EXCEPT !.locals = GradingLocals(q, student_answers[a][i])], "write")
                  /\ UNCHANGED student_answers
             ELSE /\ student_answers' =
                        [student_answers EXCEPT ![a][i] = saveGradingResult(@, gradingResult)]
                  /\ auto' = [auto EXCEPT
                        !.locals = GradingLocals(q, student_answers[a][i]),
                        !.i = @ + 1,
                        !.totalMarks = @ + q.marks,
                        !.scoredMarks = @ + gradingResult.scored_marks,
                        !.autoGradedCount =
                            IF gradingResult.grading_method = "auto" THEN @ + 1 ELSE @,
                        !.manualGradingRequired =
                            IF gradingResult.grading_method = "auto" THEN @ ELSE @ + 1,
                        !.pc = IF auto.i = Len(auto.rows) THEN "update" ELSE "loop"]
    /\ UNCHANGED <<deployed, questions, attempts, reqs, overrides, norm, grade, served, assessment,
                   gemini>>

\* updateAttemptGrading, and then the return statement, whose object
\* literal reads total_marks, which is declared nowhere: the run ends with
\* a ReferenceError after the attempt row was written (cause "return").  A
\* rejected UPDATE ends it before (cause "write").
AutoUpdateAttempt ==
    /\ auto.pc = "update"
    /\ \E written \in BOOLEAN :
          IF ~written
          THEN /\ auto' = RejectedRun(auto, "write")
               /\ UNCHANGED attempts
          ELSE /\ attempts' = [attempts EXCEPT ![auto.attempt] =
                    [@ EXCEPT !.total_marks = auto.totalMarks,
                              !.scored_marks = auto.scoredMarks,
                              !.percentage = Percentage(auto.scoredMarks, auto.totalMarks),
                              !.auto_graded_count = auto.autoGradedCount,
                              !.manual_grading_required = auto.manualGradingRequired,
                              !.grading_status = GradingStatus(auto.manualGradingRequired)]]
               /\ auto' = RejectedRun(auto, "return")
    /\ UNCHANGED <<deployed, questions, student_answers, reqs, overrides, norm, grade, served, assessment,
                   gemini>>

\* the query of getQuestionsRequiringManualGrading on the assessment of
\* attempt a: the questions with an answer whose grading_method is 'manual'
\* in an attempt whose grading_status is neither NULL nor 'fully_graded'
ManualGradingRows(a) ==
    {i \in 1..Len(questions[a]) :
        /\ student_answers[a][i].exists
        /\ student_answers[a][i].grading_method = "manual"
        /\ attempts[a].grading_status \notin {"null", "fully_graded"}}

\* GET /manual-grading/:assessmentId; a query that throws is answered with
\* the empty list
getQuestionsRequiringManualGrading ==
    /\ served.stage = "idle"
    /\ \E ok \in BOOLEAN :
          served' = [stage |-> "list", at |-> auto.pc,
                     rows |-> IF ok THEN ManualGradingRows(StudentAttempt) ELSE {}]
    /\ UNCHANGED <<deployed, questions, attempts, student_answers, reqs, overrides, norm, grade, auto, assessment,
                   gemini>>

NextAuto ==
    \/ \E a \in AttemptIds : AutoStart(a)
    \/ AutoGradeQuestion
    \/ AutoUpdateAttempt
    \/ getQuestionsRequiringManualGrading

SpecAuto == InitAuto /\ [][NextAuto]_vars

(***************************************************************************)
(* Properties of the grading run (specification SpecAuto).                  *)
(***************************************************************************)
\* the run has written its result on the attempt row
Persisted == auto.pc = "rejected" /\ auto.cause = "return"

\* the marks of all questions of attempt a
MarksOfAttempt(a) == SumSeq([i \in 1..Len(questions[a]) |-> questions[a][i].marks])

\* C17: the total_marks that grading stores on an attempt is the sum of the
\* marks of all questions of the attempt, whether answered or not.
TotalMarksIsSumOfMarks ==
    Persisted => attempts[auto.attempt].total_marks = MarksOfAttempt(auto.attempt)

\* what the run does store: the marks of the questions that have an answer
\* row, whatever the answers are
TotalMarksIsSumOfAnswered ==
    Persisted =>
        attempts[auto.attempt].total_marks =
            SumSeq([k \in 1..Len(auto.rows) |-> questions[auto.attempt][auto.rows[k]].marks])

\* the answer rows that a grading run has written
GradedRows(a) ==
    {i \in 1..Len(questions[a]) :
        student_answers[a][i].exists /\ student_answers[a][i].grading_method # "none"}

\* C18: what gradeAssessmentAttempt stores on the attempt: grading_status is
\* 'fully_graded' exactly when no graded question needs manual grading and
\* 'partially_graded' otherwise, and auto_graded_count plus
\* manual_grading_required is the number of questions the run graded.
GradingStatusMatchesCounts ==
    Persisted =>
        LET att == attempts[auto.attempt]
            manual == {i \in GradedRows(auto.attempt) :
                          student_answers[auto.attempt][i].grading_method # "auto"}
        IN  /\ att.grading_status \in {"fully_graded", "partially_graded"}
            /\ att.grading_status = "fully_graded" <=> manual = {}
            /\ att.manual_grading_required = Cardinality(manual)
            /\ att.auto_graded_count + att.manual_grading_required =
                  Cardinality(GradedRows(auto.attempt))
            /\ Cardinality(GradedRows(auto.attempt)) = Len(auto.rows)

\* a run that graded two questions and stored the attempt as partially graded
TwoQuestionsGraded ==
    /\ Persisted
    /\ Cardinality(GradedRows(auto.attempt)) = 2
    /\ attempts[auto.attempt].manual_grading_required = 2
    /\ attempts[auto.attempt].grading_status = "partially_graded"

EssayWithoutRubric(a, i) ==
    questions[a][i].question_type = "essay" /\ questions[a][i].rubric.k = "null"

\* the answer to question i of attempt a is recorded as left to manual
\* grading, with no marks
RecordedManual(a, i) ==
    /\ student_answers[a][i].grading_method = "manual"
    /\ student_answers[a][i].scored_marks = 0

QuestionsNeverMutated ==
    [][\A a \in AttemptIds : questions[a] # <<>> => questions'[a] = questions[a]]_vars

\* an attempt was submitted and one of its answers overridden
SubmittedAndOverridden ==
    /\ \E r \in ReqIds : reqs[r].pc = "ok200" /\ reqs[r].attempt = StudentAttempt
    /\ attempts[StudentAttempt].status = "completed"
    /\ \E i \in 1..Len(questions[StudentAttempt]) :
          student_answers[StudentAttempt][i].grading_method = "manual_override"
    /\ questions[StudentAttempt] \in QuestionLists

\* the same for gradeAssessmentAttempt (specification SpecAuto) and for the
\* override route with every kind of request (specification SpecOverride):
\* the questions are not written at all
QuestionsUntouched == [][questions' = questions]_vars

(***************************************************************************)
(* The checking model during a submission (specification Spec, the copy of  *)
(* the handler that asks the checking model about short answers).           *)
(***************************************************************************)
\* C21: a failed call of the checking model for a short answer is not fatal
\* to the submission: the question is left for manual review and the other
\* questions are still graded, so no submission of that copy of the handler
\* ends in the catch because of the call.
CheckingFailureNotFatal ==
    \A r \in ReqIds :
        ~(deployed = "submitAI" /\ reqs[r].pc = "err500" /\ reqs[r].cause = "evaluation")

(***************************************************************************)
(* Objective questions in gradeQuestion (specification SpecAuto).           *)
(***************************************************************************)
Objective(q) == q.question_type \in {"multiple_choice", "true_false"}

\* the marks an objective question earns: all of them when the ticked
\* options contain the correct answer (multiple choice) or the answer equals
\* the correct answer ignoring case (true/false), none otherwise
ObjectiveMarks(q, row) ==
    IF q.question_type = "multiple_choice"
    THEN IF \E n \in 1..Len(row.selected_options) : row.selected_options[n] = q.correct_answer
         THEN q.marks ELSE 0
    ELSE IF toLowerCase(String(row.student_answer)) = toLowerCase(String(q.correct_answer))
         THEN q.marks ELSE 0

\* C22: gradeQuestion auto-grades objective questions: the answer to a
\* multiple-choice or true/false question that grading has recorded carries
\* grading_method 'auto' and the question's marks when it is right, 0 when
\* it is wrong or missing.
ObjectiveAutoGraded ==
    \A i \in GradedRows(StudentAttempt) :
        Objective(questions[StudentAttempt][i]) =>
            /\ student_answers[StudentAttempt][i].grading_method = "auto"
            /\ student_answers[StudentAttempt][i].scored_marks =
                  ObjectiveMarks(questions[StudentAttempt][i], student_answers[StudentAttempt][i])

\* C23: gradeAssessmentAttempt throws only when the attempt does not exist
\* or a persistence call fails; for an existing attempt whose writes all
\* succeed it returns what it stored on the attempt.
GradingRunThrowsOnlyOnFailure ==
    auto.pc = "rejected" => auto.cause \in {"not_found", "write"}

(***************************************************************************)
(* A grading run over an attempt with an overridden answer (specification   *)
(* SpecRegrade): the state of InitAuto after an instructor has overridden   *)
(* the first answer of the attempt, and the same run.                       *)
(***************************************************************************)
InitRegrade ==
    /\ deployed = "submit"
    /\ questions \in {qs \in [AttemptIds -> AutoQuestionLists \cup {<<>>}] :
                        qs[StudentAttempt] # <<>> /\ qs[PrintAttempt] = <<>>}
    /\ \E have \in 1..MaxQuestions, selected \in SelectedOptions :
          /\ have <= Len(questions[StudentAttempt])
          /\ student_answers =
                [a \in AttemptIds |->
                    [i \in 1..Len(questions[a]) |->
                        IF i = 1
                        THEN overrideGrading(AutoRow(selected), 3, Null, Str(<<"r">>), "instructor")
                        ELSE IF i <= have THEN AutoRow(selected) ELSE NoRow]]
          /\ attempts =
                [a \in AttemptIds |->
                    IF a = StudentAttempt
                    THEN AutoAttempt(IF have = Len(questions[a]) THEN "completed"
                                     ELSE "in_progress", "student")
                    ELSE AutoAttempt("none", "none")]
    /\ reqs = [r \in ReqIds |-> IdleReq]
    /\ overrides = 1
    /\ norm = [stage |-> "idle"]
    /\ grade = [stage |-> "idle"]
    /\ served = [stage |-> "idle"]
    /\ auto = IdleRun
    /\ assessment = [is_executed |-> TRUE]
    /\ gemini = [pc |-> "idle"]

SpecRegrade == InitRegrade /\ [][NextAuto]_vars

\* C24: an overridden answer (grading_method 'manual_override') keeps its
\* score and its grading method through a later grading run over the
\* attempt.
OverrideSurvivesGrading ==
    [][\A i \in 1..Len(questions[StudentAttempt]) :
          student_answers[StudentAttempt][i].grading_method = "manual_override" =>
              /\ student_answers'[StudentAttempt][i].grading_method = "manual_override"
              /\ student_answers'[StudentAttempt][i].scored_marks =
                    student_answers[StudentAttempt][i].scored_marks]_vars

(***************************************************************************)
(* Rubric and keyword grading of one answer in isolation (specification     *)
(* SpecRubric); grade holds the inputs and then the result.                 *)
(***************************************************************************)
RubricChars == {"a", "B", Space}
RubricAnswers == StringsUpTo(RubricChars, MaxLen) \ {<<>>}

\* criteria a rubric may carry: keyword criteria worth 1 and 3 marks and a
\* criterion with a description only
CriterionPool ==
    {Criterion(1, <<<<"a">>>>, FALSE),
     Criterion(3, <<<<"a">>, <<"B">>>>, FALSE),
     Criterion(2, <<>>, TRUE)}

CriteriaRubrics == {[criteria |-> c] : c \in StringsUpTo(CriterionPool, MaxKeywords)}

\* the marks of the question
RubricMarks == {2, 3}

\* the expected answers of keyword matching: none, or a word
ExpectedAnswers == {Null, Str(<<"a">>)}

InitRubric ==
    /\ deployed = "submit"
    /\ questions = [a \in AttemptIds |-> <<>>]
    /\ attempts = [a \in AttemptIds |-> NoAttempt]
    /\ student_answers = [a \in AttemptIds |-> <<>>]
    /\ reqs = [r \in ReqIds |-> IdleReq]
    /\ overrides = 0
    /\ norm = [stage |-> "idle"]
    /\ \E answer \in RubricAnswers, rubric \in CriteriaRubrics, marks \in RubricMarks,
          expected \in ExpectedAnswers :
          grade = [stage |-> "input", answer |-> Str(answer), rubric |-> rubric,
                   marks |-> marks, expected |-> expected]
    /\ served = [stage |-> "idle"]
    /\ auto = [stage |-> "idle"]
    /\ assessment = [is_executed |-> TRUE]
    /\ gemini = [pc |-> "idle"]

ApplyRubric ==
    /\ grade.stage = "input"
    /\ grade' = [grade EXCEPT !.stage = "rubric"] @@
                [threw |-> FALSE,
                 result |-> applyRubricGrading(grade.answer, grade.rubric, grade.marks)]
    /\ UNCHANGED <<deployed, questions, attempts, student_answers, reqs, overrides, norm,
                   served, auto, assessment, gemini>>

MatchKeywords ==
    /\ grade.stage = "input"
    /\ LET r == gradeByKeywordMatching(String(grade.answer), grade.expected, grade.marks)
       IN  grade' = [grade EXCEPT !.stage = "keywords"] @@
                    [threw |-> r.threw,
                     result |-> [scored_marks |-> r.scored_marks,
                                 grading_method |-> r.grading_method]]
    /\ UNCHANGED <<deployed, questions, attempts, student_answers, reqs, overrides, norm,
                   served, auto, assessment, gemini>>

NextRubric == ApplyRubric \/ MatchKeywords

SpecRubric == InitRubric /\ [][NextRubric]_vars

StartUsers == {"student", "guest"}
Enrolled(user) == user = "student"

\* a start request: is_executed is the flag of the assessment row the
\* handler read, setExecuted tells whether the handler sent the UPDATE of
\* is_executed
IdleStart ==
    [pc |-> "idle", user |-> "none", attempt |-> 0, is_executed |-> FALSE,
     setExecuted |-> FALSE]

\* SELECT id FROM assessment_attempts WHERE student_id = $1 AND
\* assessment_id = $2 AND status = 'in_progress'
InProgressAttempts(user) ==
    {a \in AttemptIds : attempts[a].status = "in_progress" /\ attempts[a].student_id = user}

\* the id that the INSERT into assessment_attempts returns
NextAttemptId == CHOOSE a \in AttemptIds :
    attempts[a].status = "none" /\ \A b \in AttemptIds : attempts[b].status = "none" => a <= b

\* Before any request the student has no attempt and the assessment was not
\* executed, or has an attempt in progress that an earlier start created.
InitStart ==
    /\ deployed = "submit"
    /\ \E started \in BOOLEAN :
          /\ attempts = [a \in AttemptIds |->
                            IF started /\ a = StudentAttempt
                            THEN [status |-> "in_progress", score |-> 0, student_id |-> "student"]
                            ELSE NoAttempt]
          /\ questions = [a \in AttemptIds |->
                            IF started /\ a = StudentAttempt THEN SubmittedQuestions ELSE <<>>]
          /\ assessment = [is_executed |-> started]
    /\ student_answers = [a \in AttemptIds |-> [i \in 1..Len(questions[a]) |-> NoRow]]
    /\ reqs = [r \in ReqIds |-> IdleStart]
    /\ overrides = 0
    /\ norm = [stage |-> "idle"]
    /\ grade = [stage |-> "idle"]
    /\ served = [stage |-> "idle"]
    /\ auto = [stage |-> "idle"]
    /\ gemini = [pc |-> "idle"]

\* The request arrives: the assessment and its question blocks are read.
StartLoad(r, user) ==
    /\ reqs[r].pc = "idle"
    /\ r > 1 => reqs[r - 1].pc # "idle"
    /\ reqs' = [reqs EXCEPT ![r] =
                   [IdleStart EXCEPT !.pc = "execute", !.user = user,
                                     !.is_executed = assessment.is_executed]]
    /\ UNCHANGED <<deployed, questions, attempts, student_answers, overrides, norm, grade,
                   served, auto, assessment, gemini>>

\* if (!assessment.is_executed) UPDATE assessments SET is_executed = true
StartExecute(r) ==
    /\ reqs[r].pc = "execute"
    /\ assessment' = IF reqs[r].is_executed THEN assessment
                     ELSE [assessment EXCEPT !.is_executed = TRUE]
    /\ reqs' = [reqs EXCEPT ![r].pc = "check", ![r].setExecuted = ~reqs[r].is_executed]
    /\ UNCHANGED <<deployed, questions, attempts, student_answers, overrides, norm, grade,
                   served, auto, gemini>>

\* the enrollment is validated (403) and an attempt in progress looked for
\* (400)
StartCheck(r) ==
    /\ reqs[r].pc = "check"
    /\ reqs' = [reqs EXCEPT ![r].pc =
                   IF ~Enrolled(reqs[r].user) THEN "denied403"
                   ELSE IF InProgressAttempts(reqs[r].user) # {} THEN "bad400"
                   ELSE "insert"]
    /\ UNCHANGED <<deployed, questions, attempts, student_answers, overrides, norm, grade,
                   served, auto, assessment, gemini>>

\* INSERT INTO assessment_attempts (..., status) VALUES (..., 'in_progress')
StartInsert(r) ==
    /\ reqs[r].pc = "insert"
    /\ attempts' = [attempts EXCEPT ![NextAttemptId] =
                       [status |-> "in_progress", score |-> 0, student_id |-> reqs[r].user]]
    /\ reqs' = [reqs EXCEPT ![r].pc = "generate", ![r].attempt = NextAttemptId]
    /\ UNCHANGED <<deployed, questions, student_answers, overrides, norm, grade,
                   served, auto, assessment, gemini>>

\* generateAssessmentQuestions and the 200 response; when the generation
\* throws (generated = FALSE) the catch of the handler answers 500
StartGenerate(r) ==
    /\ reqs[r].pc = "generate"
    /\ \E generated \in BOOLEAN :
          IF generated
          THEN /\ questions' = [questions EXCEPT ![reqs[r].attempt] = SubmittedQuestions]
               /\ student_answers' = [student_answers EXCEPT ![reqs[r].attempt] =
                                         [i \in 1..Len(SubmittedQuestions) |-> NoRow]]
               /\ reqs' = [reqs EXCEPT ![r].pc = "ok200"]
          ELSE /\ reqs' = [reqs EXCEPT ![r].pc = "err500"]
               /\ UNCHANGED <<questions, student_answers>>
    /\ UNCHANGED <<deployed, attempts, overrides, norm, grade, served, auto, assessment, gemini>>

NextStart ==
    \/ \E r \in ReqIds, user \in StartUsers : StartLoad(r, user)
    \/ \E r \in ReqIds : StartExecute(r)
    \/ \E r \in ReqIds : StartCheck(r)
    \/ \E r \in ReqIds : StartInsert(r)
    \/ \E r \in ReqIds : StartGenerate(r)

SpecStart == InitStart /\ [][NextStart]_vars

\* C26: a start request that is rejected, with 403 because the student is
\* not enrolled or with 400 because an attempt is in progress, has created
\* no attempt and has not set the is_executed flag of the assessment.
RejectedStartChangesNothing ==
    \A r \in ReqIds :
        reqs[r].pc \in {"denied403", "bad400"} =>
            reqs[r].attempt = 0 /\ ~reqs[r].setExecuted

\* C27: a student never has more than one attempt in progress for the
\* assessment, however concurrent start requests interleave.
OneAttemptInProgress ==
    \A user \in StartUsers : Cardinality(InProgressAttempts(user)) <= 1

\* C28: a start request whose question generation failed leaves no attempt
\* in progress behind, so the student is not refused a later start because
\* of an attempt without questions.
FailedStartLeavesNoAttempt ==
    \A r \in ReqIds :
        reqs[r].pc = "err500" => attempts[reqs[r].attempt].status # "in_progress"

(***************************************************************************)
(* geminiService (specifications SpecGen and SpecGenLive): the creation     *)
(* keys, the key in use and one call of generateContent at a time.  A key   *)
(* whose quota is exhausted answers every call with RESOURCE_EXHAUSTED.     *)
(***************************************************************************)
\* CREATION_KEYS holds GEMINI_CREATION_API_KEY_1 and _2, those that are set
MaxKeys == 2
\* rotations of one call are counted up to MaxRotations, which stands for
\* "MaxRotations or more"
MaxRotations == 3

checkingClient == [kind |-> "checking", index |-> 0]
creationClients(keys) == [i \in 0..(keys - 1) |-> [kind |-> "creation", index |-> i]]
Clients(keys) == {checkingClient} \cup {creationClients(keys)[i] : i \in 0..(keys - 1)}

\* the module after its import: the first creation key is active, no call
\* is running, no quota is exhausted
InitGen ==
    /\ deployed = "submit"
    /\ questions = [a \in AttemptIds |-> <<>>]
    /\ attempts = [a \in AttemptIds |-> NoAttempt]
    /\ student_answers = [a \in AttemptIds |-> <<>>]
    /\ reqs = [r \in ReqIds |-> IdleStart]
    /\ overrides = 0
    /\ norm = [stage |-> "idle"]
    /\ grade = [stage |-> "idle"]
    /\ served = [stage |-> "idle"]
    /\ auto = [stage |-> "idle"]
    /\ assessment = [is_executed |-> TRUE]
    /\ \E keys \in 1..MaxKeys :
          gemini = [pc |-> "idle", keys |-> keys, activeCreationIndex |-> 0,
                    client |-> checkingClient, exhausted |-> {}, rotations |-> 0]

\* the provider: the quota of the key of a client runs out
QuotaExhausted(c) ==
    /\ c \in Clients(gemini.keys)
    /\ c \notin gemini.exhausted
    /\ gemini' = [gemini EXCEPT !.exhausted = @ \cup {c}]
    /\ UNCHANGED <<deployed, questions, attempts, student_answers, reqs, overrides, norm,
                   grade, served, auto, assessment>>

\* a caller obtains a client (getCreationModel: the active creation client,
\* getCheckingModel: the checking client) and calls generateContent with it
GenStart(kind) ==
    /\ gemini.pc \in {"idle", "returned", "threw"}
    /\ gemini' = [gemini EXCEPT
                     !.pc = "calling",
                     !.client = IF kind = "creation"
                                THEN creationClients(gemini.keys)[gemini.activeCreationIndex]
                                ELSE checkingClient,
                     !.rotations = 0]
    /\ UNCHANGED <<deployed, questions, attempts, student_answers, reqs, overrides, norm,
                   grade, served, auto, assessment>>

\* await client.models.generateContent({...}): the request is sent
GenRequest ==
    /\ gemini.pc = "calling"
    /\ gemini' = [gemini EXCEPT !.pc = "awaiting"]
    /\ UNCHANGED <<deployed, questions, attempts, student_answers, reqs, overrides, norm,
                   grade, served, auto, assessment>>

\* the call of the client answers with a text: return text
GenReturn ==
    /\ gemini.pc = "awaiting"
    /\ gemini.client \notin gemini.exhausted
    /\ gemini' = [gemini EXCEPT !.pc = "returned"]
    /\ UNCHANGED <<deployed, questions, attempts, student_answers, reqs, overrides, norm,
                   grade, served, auto, assessment>>

\* the call fails with another error than the quota, or answers without a
\* text: throw error
GenThrow ==
    /\ gemini.pc = "awaiting"
    /\ gemini.client \notin gemini.exhausted
    /\ gemini' = [gemini EXCEPT !.pc = "threw"]
    /\ UNCHANGED <<deployed, questions, attempts, student_answers, reqs, overrides, norm,
                   grade, served, auto, assessment>>

\* activeCreationIndex = (activeCreationIndex + 1) % creationClients.length
rotateCreationKey(index, keys) == (index + 1) % keys

\* the call fails with RESOURCE_EXHAUSTED or 429: rotateCreationKey() and
\* return generateContent(fallbackClient, prompt, options)
GenRotate ==
    /\ gemini.pc = "awaiting"
    /\ gemini.client \in gemini.exhausted
    /\ gemini' = [gemini EXCEPT
                     !.pc = "calling",
                     !.activeCreationIndex = rotateCreationKey(@, gemini.keys),
                     !.client = creationClients(gemini.keys)[
                                    rotateCreationKey(gemini.activeCreationIndex, gemini.keys)],
                     !.rotations = IF @ < MaxRotations THEN @ + 1 ELSE @]
    /\ UNCHANGED <<deployed, questions, attempts, student_answers, reqs, overrides, norm,
                   grade, served, auto, assessment>>

NextGen ==
    \/ \E c \in Clients(MaxKeys) : QuotaExhausted(c)
    \/ \E kind \in {"creation", "checking"} : GenStart(kind)
    \/ GenRequest
    \/ GenReturn
    \/ GenThrow
    \/ GenRotate

SpecGen == InitGen /\ [][NextGen]_vars

\* every awaited call of a client settles, with an answer or an error
SpecGenLive == SpecGen /\ WF_vars(GenRequest \/ GenReturn \/ GenThrow \/ GenRotate)

\* C29: every call of generateContent ends, by returning a text or by
\* throwing to its caller, also when the quota of every creation key is
\* exhausted.
GenerateContentTerminates ==
    (gemini.pc \in {"calling", "awaiting"}) ~> (gemini.pc \in {"returned", "threw"})

(***************************************************************************)
(* The analytics views of a completed attempt (specification SpecViews):    *)
(* one question is scored by the submission, its row is stored, and the     *)
(* views report on the stored row.  The NUMERIC columns score,              *)
(* positive_marks and negative_marks reach the views as non-empty strings,  *)
(* which are truthy, so that (x || y) is x for them.                        *)
(***************************************************************************)
InitViews ==
    /\ grade \in {[stage |-> "input", handler |-> "none", q |-> q, answer |-> a,
                   result |-> NoResult] : q \in GradeQuestions, a \in RawAnswers}
    /\ deployed = "submit"
    /\ questions = <<>>
    /\ attempts = <<>>
    /\ student_answers = <<>>
    /\ reqs = <<>>
    /\ overrides = 0
    /\ norm = [stage |-> "idle"]
    /\ served = [stage |-> "idle"]
    /\ auto = [stage |-> "idle"]
    /\ assessment = [is_executed |-> TRUE]
    /\ gemini = [pc |-> "idle"]

\* the row of student_answers that the submission wrote for the question
ViewedRow ==
    [student_answer |-> StoredAnswer(grade.q, grade.answer), score |-> grade.result.score]

\* (value || '').trim().replace(/"/g, '').toLowerCase()
normalizedAnswer(v) ==
    IF v.k = "null" THEN <<>>
    ELSE toLowerCase(SelectSeq(trim(String(v)), LAMBDA c : c # Quote))

\* the map of getStudentAttemptQuestionsModel over one row of its query; the
\* text of a JSON document (an object in braces, or null, false, 0) is none
\* of the answers of the model, cleaned or not
getStudentAttemptQuestionsModel(q, sa) ==
    LET correct == /\ q.correct_answer.k # "json"
                   /\ cleanAnalytics(q.correct_answer) = cleanAnalytics(sa.student_answer)
    IN  [is_correct |-> correct,
         score |-> IF correct THEN q.positive_marks ELSE sa.score]

\* the map of getAssessmentQuestions over one row of its query
getAssessmentQuestions(q, sa) ==
    LET computedIsCorrect ==
            /\ q.correct_answer.k # "json"
            /\ normalizedAnswer(sa.student_answer) = normalizedAnswer(q.correct_answer)
    IN  [is_correct |-> computedIsCorrect,
         score |-> IF computedIsCorrect THEN q.positive_marks ELSE q.negative_marks]

\* a view answers for the attempt, which is completed: the submission did
\* not throw
Viewed(view, report) ==
    /\ grade.stage = "scored"
    /\ ~grade.result.threw
    /\ grade' = [grade EXCEPT !.stage = "viewed"] @@ [view |-> view, report |-> report]
    /\ UNCHANGED <<deployed, questions, attempts, student_answers, reqs, overrides, norm,
                   served, auto, assessment, gemini>>

ViewStudentAttempt ==
    Viewed("getStudentAttemptQuestionsModel",
           getStudentAttemptQuestionsModel(grade.q, ViewedRow))

ViewAssessmentQuestions ==
    Viewed("getAssessmentQuestions", getAssessmentQuestions(grade.q, ViewedRow))

NextViews == ScoreOne \/ ViewStudentAttempt \/ ViewAssessmentQuestions

SpecViews == InitViews /\ [][NextViews]_vars

\* C30: the score and the correctness that a view reports for a question of
\* a completed attempt are those the submission determined; a question
\* without an answer is reported with score 0 and an answered, incorrect one
\* with a score of at most 0.
ViewsReportSubmission ==
    grade.stage = "viewed" =>
        /\ grade.report.score = grade.result.score
        /\ grade.report.is_correct = grade.result.isCorrect
        /\ grade.answer = Null => grade.report.score = 0
        /\ (grade.answer # Null /\ ~grade.result.isCorrect) => grade.report.score <= 0

====
